---- MODULE Spec2Model ----
(***************************************************************************)
(* A model of the BigQuery STRUCT support of pybigquery:                   *)
(*   src/sqlalchemy_bigquery/_struct.py  (STRUCT type, struct literal,     *)
(*                                        SQLCompiler mix-in)              *)
(*   src/pybigquery/__init__.py          (the older STRUCT / struct)       *)
(*                                                                         *)
(* Python strings are modelled as sequences of one-character strings so    *)
(* that str.lower() is computed character by character; rendered SQL text  *)
(* is a TLA+ string built with \o.  Python values whose type matters to    *)
(* the code (the key given to [] ) carry their Python type in a "py" tag.  *)
(***************************************************************************)
EXTENDS Integers, Sequences, FiniteSets, TLC

VARIABLES
  expr,          \* the expression at hand: a column, a struct literal, a field access
  built,         \* the arguments the column's type or the literal was constructed from
  accessed,      \* the keys of the field accesses taken on it so far, in order
  result,        \* the last operation, its argument and its outcome
  delegate,      \* what the module-level name _get_subtype_col_spec is bound to
  threads,       \* each thread's position in get_col_spec and in the initializer
  rebinds,       \* how often the delegate was rebound
  compilers,     \* how many type compilers were constructed
  lateCompilers  \* ... of these, by calls that entered the initializer after a rebinding

vars ==
  <<expr, built, accessed, result, delegate, threads, rebinds, compilers,
    lateCompilers>>

(***************************************************************************)
(* Bounds of the model.                                                    *)
(***************************************************************************)
\* the most fields (positional plus keyword) given to one STRUCT(...) call
MaxFields == 2
\* the most clauses given to one struct(...) literal
MaxClauses == 2
\* the number of threads rendering column specifications
NThreads == 2
\* the most get_col_spec calls one thread makes
MaxCalls == 2

(***************************************************************************)
(* Python strings.                                                         *)
(***************************************************************************)
UpperCase == <<"A","B","C","D","E","F","G","H","I","J","K","L","M",
               "N","O","P","Q","R","S","T","U","V","W","X","Y","Z">>

LowerCase == <<"a","b","c","d","e","f","g","h","i","j","k","l","m",
               "n","o","p","q","r","s","t","u","v","w","x","y","z">>

\* str.lower() on one (ASCII) character
LowerChar(c) ==
  IF \E i \in DOMAIN UpperCase : UpperCase[i] = c
  THEN LowerCase[CHOOSE i \in DOMAIN UpperCase : UpperCase[i] = c]
  ELSE c

\* str.lower()
Lower(s) == [i \in DOMAIN s |-> LowerChar(s[i])]

RECURSIVE Str(_)
\* the text of a Python string, as a TLA+ string
Str(s) == IF s = <<>> THEN "" ELSE Head(s) \o Str(Tail(s))

RECURSIVE Join(_, _)
\* sep.join(parts)
Join(sep, parts) ==
  IF parts = <<>> THEN ""
  ELSE IF Len(parts) = 1 THEN parts[1]
  ELSE parts[1] \o sep \o Join(sep, Tail(parts))

\* Python values given as a key to expr[key]
PyStr(s) == [py |-> "str", v |-> s]
PyInt(digits) == [py |-> "int", v |-> digits]
PyNone == [py |-> "NoneType", v |-> <<"N","o","n","e">>]

\* isinstance(name, str)
IsStr(name) == name.py = "str"

\* the names used for fields, clauses and keys
foo == <<"f","o","o">>
Foo == <<"F","o","o">>
FOO == <<"F","O","O">>
bar == <<"b","a","r">>

FieldNames == {foo, Foo}
KeyNames == {foo, FOO, bar}
Keys == {PyStr(n) : n \in KeyNames} \cup {PyInt(<<"0">>), PyNone}

(***************************************************************************)
(* Types.  A type object is an instance ([k |-> "inst"]) or a class        *)
(* ([k |-> "class"]) of a sqlalchemy type.                                 *)
(***************************************************************************)
Inst(cls) == [k |-> "inst", cls |-> cls]
Class(cls) == [k |-> "class", cls |-> cls]
None == [k |-> "None", cls |-> "NoneType"]

\* isinstance(type_, sqlalchemy.types.TypeEngine)
IsTypeEngine(type_) == type_.k = "inst"

\* type_ if isinstance(type_, TypeEngine) else type_()
Instantiate(type_) ==
  IF IsTypeEngine(type_) THEN type_ ELSE Inst(type_.cls)

\* the empty dict
EmptyDict == [k \in {} |-> None]

\* d[key] = value on a dict modelled as a function
DictSet(d, key, value) == (key :> value) @@ d

\* d.get(key)
DictGet(d, key) == IF key \in DOMAIN d THEN d[key] ELSE None

RECURSIVE ByNameFirstWins(_)
\* faulty variant of ByName: an earlier field is not overwritten by a later one
ByNameFirstWins(fields) ==
  IF fields = <<>> THEN EmptyDict
  ELSE LET rest == ByNameFirstWins(SubSeq(fields, 1, Len(fields) - 1))
           last == fields[Len(fields)]
       IN IF Lower(last[1]) \in DOMAIN rest THEN rest
          ELSE DictSet(rest, Lower(last[1]), last[2])

RECURSIVE ByName(_)
\* {name.lower(): type_ for (name, type_) in self._STRUCT_fields}
ByName(fields) ==
  IF fields = <<>> THEN EmptyDict
  ELSE LET last == fields[Len(fields)]
       IN DictSet(ByName(SubSeq(fields, 1, Len(fields) - 1)),
                  Lower(last[1]), last[2])

\* STRUCT.__init__(self, *fields, **kwfields)
STRUCT_init(fields, kwfields) ==
  LET all == fields \o kwfields
      fs == [i \in DOMAIN all |-> <<all[i][1], Instantiate(all[i][2])>>]
  IN [k |-> "inst", cls |-> "STRUCT",
      _STRUCT_fields |-> fs, _STRUCT_byname |-> ByName(fs)]

(***************************************************************************)
(* Expression nodes of the host framework.                                 *)
(***************************************************************************)
Column(name, type_) == [node |-> "column", name |-> name, type |-> type_]

Label(name, element, type_) ==
  [node |-> "label", name |-> name, element |-> element, type |-> type_]

BindParameter(value, type_, operator) ==
  [node |-> "bindparam", value |-> value, type |-> type_,
   operator |-> operator]

BinaryExpression(left, right, operator, type_) ==
  [node |-> "binary", left |-> left, right |-> right,
   operator |-> operator, type |-> type_]

Grouping(element) ==
  [node |-> "grouping", element |-> element, type |-> element.type]

\* outcomes of a call: a returned value or a raised exception
Returned(value) == [kind |-> "ok", value |-> value]
Raised(exc, arg) == [kind |-> "raise", exc |-> exc, arg |-> arg]

(***************************************************************************)
(* STRUCT.Comparator                                                       *)
(***************************************************************************)
struct_getitem_op == "struct_getitem_op"

\* _field_index(self, name, operator): the name bound as a String parameter
_field_index(e, name, operator) ==
  BindParameter(name, Inst("String"), operator)

\* faulty variant of _setup_getitem: the name is looked up as given, without folding
_setup_getitem_NoFold(e, name) ==
  IF ~IsStr(name) THEN Raised("TypeError", name)
  ELSE LET subtype == DictGet(e.type._STRUCT_byname, name.v)
       IN IF subtype = None THEN Raised("KeyError", name)
          ELSE Returned(<<struct_getitem_op,
                          _field_index(e, name, struct_getitem_op),
                          subtype>>)

\* faulty variant of _setup_getitem: the key's type is not checked first
_setup_getitem_NoTypeCheck(e, name) ==
  LET subtype == IF IsStr(name)
                 THEN DictGet(e.type._STRUCT_byname, Lower(name.v))
                 ELSE None
  IN IF subtype = None THEN Raised("KeyError", name)
     ELSE Returned(<<struct_getitem_op,
                     _field_index(e, name, struct_getitem_op), subtype>>)

\* STRUCT.Comparator._setup_getitem(self, name), with self.expr = e
_setup_getitem(e, name) ==
  IF ~IsStr(name) THEN Raised("TypeError", name)
  ELSE LET subtype == DictGet(e.type._STRUCT_byname, Lower(name.v))
       IN IF subtype = None THEN Raised("KeyError", name)
          ELSE Returned(<<struct_getitem_op,
                          _field_index(e, name, struct_getitem_op),
                          subtype>>)

\* struct.self_group of sqlalchemy_bigquery, with the grouping it no longer
\* performs: a faulty variant of struct_self_group
struct_self_group_Grouping(lit, against) ==
  IF lit.field.py = "NoneType" \/ lit.field.v = <<>>
  THEN IF against = struct_getitem_op THEN Grouping(lit) ELSE lit
  ELSE lit

\* sqlalchemy_bigquery._struct.struct.self_group(self, against)
struct_self_group(lit, against) == lit

\* bool(value) of a str or None
Truthy(value) == value.py = "str" /\ value.v # <<>>

\* pybigquery.struct.self_group(self, against)
pybigquery_struct_self_group(lit, against) ==
  IF ~Truthy(lit.field) /\ against \in {"getitem"}
  THEN Grouping(lit)
  ELSE lit

\* literal.self_group(against), by the class of the literal
literal_self_group(lit, against) ==
  IF lit.module = "pybigquery"
  THEN pybigquery_struct_self_group(lit, against)
  ELSE struct_self_group(lit, against)

\* self_group of the nodes of the host framework: a field-access node is a
\* BinaryExpression whose operator, struct_getitem_op, has no precedence of
\* its own and so the lowest, and it is wrapped in a Grouping against every
\* operator; a column, a label and a Grouping are returned as they are
host_self_group(e, against) ==
  IF e.node = "binary" THEN Grouping(e) ELSE e

\* expr.self_group(against), by the class of the node
self_group(e, against) ==
  IF e.node = "struct"
  THEN literal_self_group(e, against)
  ELSE host_self_group(e, against)

\* Indexable.Comparator.__getitem__: expr[name]; the binary node is built on
\* the self-grouped left operand
getitem(e, name) ==
  LET r == _setup_getitem(e, name)
  IN IF r.kind = "raise" THEN r
     ELSE Returned(BinaryExpression(self_group(e, r.value[1]), r.value[2],
                                    r.value[1], r.value[3]))

\* faulty variant of getattr: the name is looked up without folding, and the
\* KeyError of the indexing path is let through
getattr_NoFold(e, name) ==
  IF name.v \in DOMAIN e.type._STRUCT_byname
  THEN getitem(e, name)
  ELSE LET r == getitem(e, name)
       IN IF r.kind = "raise" THEN r ELSE Raised("AttributeError", name)

\* STRUCT.Comparator.__getattr__(self, name), with self.expr = e
getattr(e, name) ==
  IF Lower(name.v) \in DOMAIN e.type._STRUCT_byname
  THEN LET r == getitem(e, name)
       IN IF r.kind = "raise" /\ r.exc = "KeyError"
          THEN Raised("AttributeError", name)
          ELSE r
  ELSE Raised("AttributeError", name)

(***************************************************************************)
(* Column specification of a STRUCT type.                                  *)
(***************************************************************************)
RECURSIVE TypeProcess(_)
RECURSIVE get_col_spec(_)

\* faulty variant of get_col_spec: the entries are taken from the name mapping
get_col_spec_ByName(self) ==
  LET fs == self._STRUCT_fields
      seen == {i \in DOMAIN fs :
                 \A j \in DOMAIN fs : Lower(fs[j][1]) = Lower(fs[i][1]) => j >= i}
      order == [n \in 1..Cardinality(seen) |->
                  CHOOSE i \in seen : Cardinality({j \in seen : j <= i}) = n]
      parts == [n \in DOMAIN order |->
                  Str(Lower(fs[order[n]][1])) \o " " \o
                  TypeProcess(self._STRUCT_byname[Lower(fs[order[n]][1])])]
  IN "STRUCT<" \o Join(", ", parts) \o ">"

\* STRUCT.get_col_spec(self), every subtype rendered by the delegate
get_col_spec(self) ==
  LET fs == self._STRUCT_fields
      parts == [i \in DOMAIN fs |->
                  Str(fs[i][1]) \o " " \o TypeProcess(fs[i][2])]
  IN "STRUCT<" \o Join(", ", parts) \o ">"

\* type_compiler.process(type_) of the BigQuery dialect
TypeProcess(type_) ==
  CASE type_.cls = "Integer" -> "INT64"
    [] type_.cls = "String" -> "STRING"
    [] type_.cls = "STRUCT" -> get_col_spec(type_)

(***************************************************************************)
(* The struct literal.                                                     *)
(***************************************************************************)
RECURSIVE DictItems(_)
\* the items, in insertion order, of {clause.name: clause.type for clause in
\* clauses}: a repeated key keeps its first position and takes the last value
DictItems(clauses) ==
  IF clauses = <<>> THEN <<>>
  ELSE LET rest == DictItems(SubSeq(clauses, 1, Len(clauses) - 1))
           last == clauses[Len(clauses)]
       IN IF \E i \in DOMAIN rest : rest[i][1] = last.name
          THEN [i \in DOMAIN rest |->
                  IF rest[i][1] = last.name THEN <<last.name, last.type>>
                  ELSE rest[i]]
          ELSE Append(rest, <<last.name, last.type>>)

\* sqlalchemy_bigquery._struct.struct.__init__(self, clauses, field)
struct_init(clauses, field) ==
  [node |-> "struct", module |-> "sqlalchemy_bigquery",
   type |-> STRUCT_init(<<>>, DictItems(clauses)),
   field |-> field, clauses |-> clauses]

\* pybigquery.STRUCT(): a type without names or subtypes
pybigquery_STRUCT == [k |-> "inst", cls |-> "pybigquery.STRUCT"]

\* pybigquery.struct.__init__(self, clauses, field)
pybigquery_struct_init(clauses, field) ==
  [node |-> "struct", module |-> "pybigquery",
   type |-> pybigquery_STRUCT,
   field |-> field, clauses |-> clauses]

(***************************************************************************)
(* SQLCompiler                                                             *)
(***************************************************************************)
RECURSIVE Process(_, _)
RECURSIVE visit_clauselist(_, _)
RECURSIVE visit_struct(_, _)
RECURSIVE visit_struct_getitem_op_binary(_, _)

\* the quotation mark of the identifier preparer
QuoteMark == "\""

\* preparer.quote_column(name): the name between quotation marks
quote_column(name) == QuoteMark \o Str(name.v) \o QuoteMark

\* faulty variant of visit_struct_getitem_op_binary: the field name is folded
visit_struct_getitem_op_binary_Folded(binary, kw) ==
  Process(binary.left, kw) \o "." \o Str(Lower(binary.right.value.v))

\* SQLCompiler.visit_struct_getitem_op_binary(self, binary, operator_, **kw)
visit_struct_getitem_op_binary(binary, kw) ==
  LET left == Process(binary.left, kw)
  IN left \o "." \o Str(binary.right.value.v)

\* faulty variant of visit_struct: the caller's rendering context is passed on
visit_struct_KeepContext(element, kw) ==
  IF Truthy(element.field)
  THEN quote_column(element.field)
  ELSE "struct(" \o visit_clauselist(element, kw) \o ")"

\* SQLCompiler.visit_struct(self, element, within_columns_clause=True, **kw)
visit_struct(element, kw) ==
  IF Truthy(element.field)
  THEN quote_column(element.field)
  ELSE LET kw2 == [kw EXCEPT !.within_columns_clause = TRUE]
           values == visit_clauselist(element, kw2)
       IN "struct(" \o values \o ")"

\* visit_clauselist of the host compiler: the clauses, comma separated
visit_clauselist(element, kw) ==
  Join(", ", [i \in DOMAIN element.clauses |->
                Process(element.clauses[i], kw)])

\* self.process(node, **kw): dispatch on the node's visit name
Process(e, kw) ==
  CASE e.node = "column" -> Str(e.name)
    [] e.node = "label" ->
         IF kw.within_columns_clause
         THEN e.element \o " AS " \o Str(e.name)
         ELSE e.element
    [] e.node = "grouping" -> "(" \o Process(e.element, kw) \o ")"
    [] e.node = "binary" -> visit_struct_getitem_op_binary(e, kw)
    [] e.node = "struct" -> visit_struct(e, kw)

(***************************************************************************)
(* The inputs of the operations.                                           *)
(***************************************************************************)
SeqsUpTo(S, n) == UNION {[1..m -> S] : m \in 0..n}

col == <<"c","o","l">>

\* STRUCT(bar=Integer) and STRUCT(Foo=STRUCT(bar=Integer)), used as subtypes
InnerStruct == STRUCT_init(<<>>, << <<bar, Class("Integer")>> >>)
OuterStruct == STRUCT_init(<< <<Foo, InnerStruct>> >>, <<>>)

TypeArgs == {Class("Integer"), Inst("String"), OuterStruct}
FieldArgs == FieldNames \X TypeArgs

\* keyword arguments have pairwise different names
KwArgs(n) ==
  {kw \in SeqsUpTo(FieldArgs, n) :
     \A i, j \in DOMAIN kw : i # j => kw[i][1] # kw[j][1]}

Clauses ==
  {Label(foo, "1", Inst("Integer")), Label(foo, "'hi'", Inst("String")),
   Label(Foo, "'hi'", Inst("String")), Label(bar, "1", Inst("Integer"))}

FieldTags == {PyNone, PyStr(<<>>), PyStr(<<"x">>)}
Operators == {"None", struct_getitem_op, "getitem", "eq"}

\* no expression constructed yet
NoExpr == [node |-> "none", type |-> None]

\* the arguments of a STRUCT(*fields, **kwfields) call
StructCalls ==
  {[call |-> "STRUCT", fields |-> fields, kwfields |-> kwfields] :
     fields \in SeqsUpTo(FieldArgs, MaxFields),
     kwfields \in KwArgs(MaxFields)}

NoResult == [op |-> "none", arg |-> PyNone, out |-> PyNone]

\* the delegate after a sequential get_col_spec over n fields
DelegateAfter(n) == IF n > 0 THEN "process" ELSE delegate

\* the type compilers a sequential get_col_spec over n fields constructs
InitializerRuns(n) == IF n > 0 /\ delegate = "initializer" THEN 1 ELSE 0

CacheUnchanged == UNCHANGED <<delegate, threads, rebinds, compilers, lateCompilers>>

(***************************************************************************)
(* Operations on a STRUCT-typed expression.                                *)
(***************************************************************************)
\* Column(col, STRUCT(*fields, **kwfields)), on the arguments at hand
NewColumn ==
  /\ expr = NoExpr
  /\ built.call = "STRUCT"
  /\ expr' = Column(col, STRUCT_init(built.fields, built.kwfields))
  /\ UNCHANGED <<built, accessed, result>>
  /\ CacheUnchanged

\* expr[key]
GetItem ==
  \E key \in Keys :
    /\ expr # NoExpr
    /\ expr.type.cls = "STRUCT"
    /\ result' = [op |-> "getitem", arg |-> key,
                  setup |-> _setup_getitem(expr, key),
                  out |-> getitem(expr, key)]
    /\ UNCHANGED <<expr, built, accessed>>
    /\ CacheUnchanged

\* expr.<name>
GetAttr ==
  \E name \in KeyNames :
    /\ expr # NoExpr
    /\ expr.type.cls = "STRUCT"
    /\ result' = [op |-> "getattr", arg |-> PyStr(name),
                  out |-> getattr(expr, PyStr(name))]
    /\ UNCHANGED <<expr, built, accessed>>
    /\ CacheUnchanged

\* the field access just built becomes the expression at hand
Select ==
  /\ result.op \in {"getitem", "getattr"}
  /\ result.out.kind = "ok"
  /\ expr' = result.out.value
  /\ accessed' = Append(accessed, result.arg)
  /\ result' = NoResult
  /\ UNCHANGED built
  /\ CacheUnchanged

\* expr.type.get_col_spec(), called from one thread
GetColSpec ==
  /\ expr # NoExpr
  /\ expr.type.cls = "STRUCT"
  /\ result' = [op |-> "get_col_spec", arg |-> PyNone,
                out |-> get_col_spec(expr.type)]
  /\ delegate' = DelegateAfter(Len(expr.type._STRUCT_fields))
  /\ rebinds' = rebinds + InitializerRuns(Len(expr.type._STRUCT_fields))
  /\ compilers' = compilers + InitializerRuns(Len(expr.type._STRUCT_fields))
  /\ UNCHANGED <<expr, built, accessed, threads, lateCompilers>>

\* compiler.process(expr, within_columns_clause=wcc)
Compile ==
  \E wcc \in BOOLEAN :
    /\ expr # NoExpr
    /\ result' = [op |-> "compile", arg |-> wcc,
                  out |-> Process(expr, [within_columns_clause |-> wcc])]
    /\ UNCHANGED <<expr, built, accessed>>
    /\ CacheUnchanged

\* a thread outside get_col_spec
Idle(calls, rebound) ==
  [pc |-> "idle", self |-> None, i |-> 0, parts |-> <<>>, fn |-> "none",
   lookedLate |-> FALSE, late |-> FALSE,
   out |-> "", calls |-> calls, rebound |-> rebound]

IdleThreads == [t \in 1..NThreads |-> Idle(0, 0)]

InitType ==
  /\ expr = NoExpr
  /\ built \in {c \in StructCalls : Len(c.fields) + Len(c.kwfields) <= MaxFields}
  /\ accessed = <<>>
  /\ result = NoResult
  /\ delegate = "initializer"
  /\ threads = IdleThreads
  /\ rebinds = 0
  /\ compilers = 0
  /\ lateCompilers = 0

NextType == NewColumn \/ GetItem \/ GetAttr \/ Select \/ GetColSpec \/ Compile

SpecType == InitType /\ [][NextType]_vars

(***************************************************************************)
(* Properties of field resolution (SpecType).                              *)
(***************************************************************************)
\* the ordered field sequence of the type of the expression at hand
Declared == expr.type._STRUCT_fields

\* the positions at which a field whose folded name is k is declared
Positions(k) == {i \in DOMAIN Declared : Lower(Declared[i][1]) = k}

\* the last of them
LastPosition(k) == CHOOSE i \in Positions(k) : \A j \in Positions(k) : j <= i

C1_Resolves ==
  (/\ result.op = "getitem"
   /\ IsStr(result.arg)
   /\ Positions(Lower(result.arg.v)) # {})
  => /\ result.setup.kind = "ok"
     /\ result.setup.value[1] = struct_getitem_op
     /\ result.setup.value[2] =
          BindParameter(result.arg, Inst("String"), struct_getitem_op)
     /\ result.setup.value[3] = Declared[LastPosition(Lower(result.arg.v))][2]
     /\ \A n \in KeyNames :
          Lower(n) = Lower(result.arg.v)
          => /\ _setup_getitem(expr, PyStr(n)).kind = "ok"
             /\ _setup_getitem(expr, PyStr(n)).value[3] = result.setup.value[3]

C1_Repeat ==
  result'.op = "getitem"
  => /\ expr' = expr
     /\ (result.op = "getitem" /\ result.arg = result'.arg
         => result'.setup = result.setup)

\* C1: resolving a field of a STRUCT descriptor is case-insensitive and
\* repeatable: a string key whose lowercased form names a declared field
\* resolves, to the struct_getitem_op tag, an index bound to the key as given
\* and the subtype every other key with the same lowercased form resolves to;
\* resolving leaves the descriptor unchanged, and resolving the same key again
\* gives an equal result.
C1_FieldResolution == [](C1_Resolves) /\ [][C1_Repeat]_vars

\* a key in another case than the declared field has been resolved
C1_Witness ==
  /\ result.op = "getitem"
  /\ result.arg = PyStr(FOO)
  /\ result.setup.kind = "ok"
  /\ \A i \in DOMAIN Declared : Declared[i][1] # FOO

\* C2: indexing fails by the kind of the key: a key that is not a string
\* raises TypeError, a string key whose lowercased form is not in the name
\* mapping raises KeyError carrying the key as given; neither builds a
\* field-access node.
C2_FailureKinds ==
  result.op = "getitem"
  => /\ ~IsStr(result.arg)
        => /\ result.setup = Raised("TypeError", result.arg)
           /\ result.out = Raised("TypeError", result.arg)
     /\ (IsStr(result.arg)
         /\ Lower(result.arg.v) \notin DOMAIN expr.type._STRUCT_byname)
        => /\ result.setup = Raised("KeyError", result.arg)
           /\ result.out = Raised("KeyError", result.arg)

\* a key that is not in lower case was looked up in a non-empty descriptor
\* that does not declare it
C2_Witness ==
  /\ result.op = "getitem"
  /\ result.arg = PyStr(FOO)
  /\ Declared # <<>>
  /\ result.out.kind = "raise"
  /\ result.out.exc = "KeyError"

\* C3: attribute access agrees with indexing on every string name: a name
\* whose lowercased form is in the name mapping gives what indexing gives, any
\* other name raises AttributeError carrying the name, where indexing raises
\* KeyError.
C3_AttributeAccess ==
  result.op = "getattr"
  => IF Lower(result.arg.v) \in DOMAIN expr.type._STRUCT_byname
     THEN /\ result.out = getitem(expr, result.arg)
          /\ result.out.kind = "ok"
     ELSE /\ result.out = Raised("AttributeError", result.arg)
          /\ getitem(expr, result.arg) = Raised("KeyError", result.arg)

\* an attribute in another case than the declared field has been read
C3_Witness ==
  /\ result.op = "getattr"
  /\ result.arg = PyStr(FOO)
  /\ result.out.kind = "ok"
  /\ result.out.value.node = "binary"

(***************************************************************************)
(* Properties of construction and rendering (SpecType).                    *)
(***************************************************************************)
\* the arguments of the STRUCT(...) call, positional then keyword
Given == built.fields \o built.kwfields

\* C5: the ordered field sequence of a constructed STRUCT is the positional
\* pairs followed by the keyword fields, in the order given and without
\* deduplication, every subtype an instance (a constructor replaced by an
\* instance of it); the name mapping is the lowercased projection of that
\* sequence, holding for each lowercased name the subtype of the last field
\* that has it.
C5_Construction ==
  (expr.node = "column" /\ built.call = "STRUCT")
  => /\ Len(Declared) = Len(built.fields) + Len(built.kwfields)
     /\ \A i \in DOMAIN Declared :
          /\ Declared[i][1] = Given[i][1]
          /\ IsTypeEngine(Declared[i][2])
          /\ Declared[i][2].cls = Given[i][2].cls
          /\ IsTypeEngine(Given[i][2]) => Declared[i][2] = Given[i][2]
     /\ DOMAIN expr.type._STRUCT_byname =
          {Lower(Given[i][1]) : i \in DOMAIN Given}
     /\ \A k \in DOMAIN expr.type._STRUCT_byname :
          expr.type._STRUCT_byname[k] = Declared[LastPosition(k)][2]

\* a positional and a keyword field share a lowercased name, have different
\* subtypes, and one of them was given as a constructor
C5_Witness ==
  /\ expr.node = "column"
  /\ built.call = "STRUCT"
  /\ Len(built.fields) = 1
  /\ Len(built.kwfields) = 1
  /\ built.fields[1][1] # built.kwfields[1][1]
  /\ Lower(built.fields[1][1]) = Lower(built.kwfields[1][1])
  /\ built.fields[1][2] = Class("Integer")
  /\ built.kwfields[1][2] = Inst("String")
  /\ Len(Declared) = 2
  /\ Cardinality(DOMAIN expr.type._STRUCT_byname) = 1

\* C7: get_col_spec gives STRUCT< + one entry "name subtype" per element of
\* the ordered field sequence, in declared order and joined by ", " + >, the
\* subtype rendered by the type-rendering delegate; without fields it gives
\* STRUCT<>.
C7_ColSpec ==
  result.op = "get_col_spec"
  => /\ result.out =
          "STRUCT<"
          \o Join(", ", [i \in DOMAIN Declared |->
                           Str(Declared[i][1]) \o " "
                           \o TypeProcess(Declared[i][2])])
          \o ">"
     /\ Declared = <<>> => result.out = "STRUCT<>"
     /\ (expr.node = "column" /\ built.call = "STRUCT")
        => result.out =
             "STRUCT<"
             \o Join(", ", [i \in DOMAIN Given |->
                              Str(Given[i][1]) \o " "
                              \o TypeProcess(Declared[i][2])])
             \o ">"

\* the column specification of a type that declares one name twice
C7_Witness ==
  /\ result.op = "get_col_spec"
  /\ Len(Declared) = 2
  /\ Declared[1][1] = Declared[2][1]
  /\ Declared[1][2] # Declared[2][2]

RECURSIVE DotPath(_)
\* the keys of a chain of field accesses, each preceded by a dot
DotPath(keys) ==
  IF keys = <<>> THEN ""
  ELSE "." \o Str(Head(keys).v) \o DotPath(Tail(keys))

RECURSIVE GroupedPath(_, _)
\* a chain of field accesses on base, every access that is the left operand
\* of a further access in parentheses
GroupedPath(base, keys) ==
  IF keys = <<>> THEN base
  ELSE IF Len(keys) = 1 THEN base \o "." \o Str(keys[1].v)
  ELSE "(" \o GroupedPath(base, SubSeq(keys, 1, Len(keys) - 1)) \o ")"
       \o "." \o Str(keys[Len(keys)].v)

\* C9 as claimed: a field-access node renders as its left operand, a dot and
\* the bound field name as given, and consequently a chain of accesses on a
\* column renders as the column followed by the names in access order, each
\* preceded by a dot.
C9_DottedChain ==
  (result.op = "compile" /\ expr.node = "binary" /\ built.call = "STRUCT")
  => /\ result.out =
          Process(expr.left, [within_columns_clause |-> result.arg])
          \o "." \o Str(expr.right.value.v)
     /\ result.out = Str(col) \o DotPath(accessed)

\* C9 as amended: a field-access node renders as the rendering of its left
\* operand, a dot and the bound field name exactly as given at access time
\* (not quoted, not lowercased); the left operand of a further access is the
\* previous access wrapped in a Grouping, so one access on a column renders
\* as col.f1 and a chain of n > 1 accesses renders with every access but the
\* last in parentheses, ((col.f1).f2).f3, the names in access order.
C9_FieldAccessRendering ==
  (result.op = "compile" /\ expr.node = "binary")
  => /\ result.out =
          Process(expr.left, [within_columns_clause |-> result.arg])
          \o "." \o Str(expr.right.value.v)
     /\ expr.right.value = accessed[Len(accessed)]
     /\ (Len(accessed) > 1) = (expr.left.node = "grouping")
     /\ built.call = "STRUCT"
        => result.out = GroupedPath(Str(col), accessed)

\* a chain of three accesses, one of them by a key that is not in lower case
C9_Witness ==
  /\ result.op = "compile"
  /\ built.call = "STRUCT"
  /\ Len(accessed) = 3
  /\ accessed[2] = PyStr(FOO)
  /\ result.out = "((col.foo).FOO).bar"

(***************************************************************************)
(* Operations on a struct literal (SpecLit).                               *)
(***************************************************************************)
Modules == {"sqlalchemy_bigquery", "pybigquery"}

\* the arguments of a struct(clauses, field) call of either module
LiteralCalls ==
  {[call |-> "struct", module |-> m, clauses |-> cs, field |-> f] :
     m \in Modules, cs \in SeqsUpTo(Clauses, MaxClauses), f \in FieldTags}

\* struct(clauses, field=field), on the arguments at hand
NewLiteral ==
  /\ expr = NoExpr
  /\ built.call = "struct"
  /\ expr' = IF built.module = "pybigquery"
             THEN pybigquery_struct_init(built.clauses, built.field)
             ELSE struct_init(built.clauses, built.field)
  /\ UNCHANGED <<built, accessed, result>>
  /\ CacheUnchanged

\* literal.self_group(against=against)
SelfGroup ==
  \E against \in Operators :
    /\ expr.node = "struct"
    /\ result' = [op |-> "self_group", arg |-> against,
                  out |-> self_group(expr, against)]
    /\ UNCHANGED <<expr, built, accessed>>
    /\ CacheUnchanged

InitLit ==
  /\ expr = NoExpr
  /\ built \in LiteralCalls
  /\ accessed = <<>>
  /\ result = NoResult
  /\ delegate = "initializer"
  /\ threads = IdleThreads
  /\ rebinds = 0
  /\ compilers = 0
  /\ lateCompilers = 0

NextLit ==
  NewLiteral \/ SelfGroup \/ Compile \/ GetItem \/ Select \/ GetColSpec

SpecLit == InitLit /\ [][NextLit]_vars

\* the (name, type) pairs of the clauses the literal was constructed from
ClausePairs ==
  [i \in DOMAIN built.clauses |->
     <<built.clauses[i].name, built.clauses[i].type>>]

\* C4, for the literal of sqlalchemy_bigquery._struct: the field list of the
\* derived STRUCT type is exactly the (name, type) pairs of the clauses, as
\* many and in the same order, also when two clauses have the same name.
\* (The literal of pybigquery derives a STRUCT type without any field list.)
C4_LiteralFields ==
  (expr.node = "struct" /\ expr.module = "sqlalchemy_bigquery")
  => /\ Len(expr.type._STRUCT_fields) = Len(built.clauses)
     /\ expr.type._STRUCT_fields = ClausePairs

\* the text of the clauses as labelled values, comma separated
LabelledValues ==
  Join(", ", [i \in DOMAIN built.clauses |->
                built.clauses[i].element \o " AS "
                \o Str(built.clauses[i].name)])

\* C6: a struct literal with a non-empty field tag renders as the quoted
\* tag alone, whatever its clauses; any other renders as struct( + its clauses
\* in order, comma separated, each as a labelled value whatever the context
\* the caller asked for + ), so without clauses as struct().
C6_LiteralRendering ==
  (result.op = "compile" /\ expr.node = "struct")
  => /\ Truthy(built.field)
        => result.out = QuoteMark \o Str(built.field.v) \o QuoteMark
     /\ ~Truthy(built.field)
        => result.out = "struct(" \o LabelledValues \o ")"
     /\ (~Truthy(built.field) /\ built.clauses = <<>>)
        => result.out = "struct()"

\* a literal of two clauses and no field tag, rendered for a caller that is
\* not within a columns clause
C6_Witness ==
  /\ result.op = "compile"
  /\ expr.node = "struct"
  /\ result.arg = FALSE
  /\ built.field = PyNone
  /\ Len(built.clauses) = 2
  /\ result.out = "struct(1 AS foo, 'hi' AS Foo)"

\* C8 as claimed: self-grouping returns the literal itself for every operator
\* and every field tag.
C8_NeverGrouped ==
  result.op = "self_group" => result.out = expr

\* C8 as amended: the literal of sqlalchemy_bigquery._struct is returned
\* itself for every operator and field tag; the literal of pybigquery is
\* returned itself unless it has no (or an empty) field tag and the operator
\* is getitem, in which case it is returned wrapped in a Grouping.
C8_SelfGroup ==
  result.op = "self_group"
  => IF /\ built.module = "pybigquery"
        /\ ~Truthy(built.field)
        /\ result.arg = "getitem"
     THEN result.out = Grouping(expr)
     ELSE result.out = expr

\* a literal of sqlalchemy_bigquery without field tag, self-grouped against
\* the field-access operator
C8_Witness ==
  /\ result.op = "self_group"
  /\ built.module = "sqlalchemy_bigquery"
  /\ built.field = PyNone
  /\ result.arg = struct_getitem_op
  /\ built.clauses # <<>>
  /\ result.out = expr

(***************************************************************************)
(* The type-rendering delegate under concurrent get_col_spec calls         *)
(* (SpecCache).  The module-level name _get_subtype_col_spec is bound to   *)
(* the initializer at import and rebound by it to type_compiler.process.   *)
(* A thread may be preempted between any two statements of the initializer.*)
(***************************************************************************)
\* the STRUCT types whose column specification the threads render
CacheTypes ==
  {STRUCT_init(<< <<foo, Class("Integer")>> >>, << <<Foo, Inst("String")>> >>),
   OuterStruct}

\* faulty variant of LookupDelegate: the call always reaches the initializer
LookupDelegate_Initializer == "initializer"

\* what the name _get_subtype_col_spec is bound to when a call evaluates it
LookupDelegate == delegate

\* the entry of field i of the type a thread is rendering
Entry(th) ==
  Str(th.self._STRUCT_fields[th.i][1]) \o " "
  \o TypeProcess(th.self._STRUCT_fields[th.i][2])

\* a thread enters self.get_col_spec()
CallColSpec(t) ==
  /\ threads[t].pc = "idle"
  /\ threads[t].calls < MaxCalls
  /\ \E self \in CacheTypes :
       threads' = [threads EXCEPT ![t] =
                     [@ EXCEPT !.pc = "field", !.self = self, !.i = 1,
                               !.parts = <<>>, !.out = "",
                               !.calls = @ + 1]]
  /\ UNCHANGED <<expr, built, accessed, result, delegate, rebinds, compilers,
                 lateCompilers>>

\* the next field: the name _get_subtype_col_spec is evaluated, which gives
\* the function it is bound to at this moment
LoadDelegate(t) ==
  /\ threads[t].pc = "field"
  /\ threads[t].i <= Len(threads[t].self._STRUCT_fields)
  /\ threads' = [threads EXCEPT ![t] =
                   [@ EXCEPT !.pc = "call", !.fn = LookupDelegate,
                             !.lookedLate = (rebinds > 0)]]
  /\ UNCHANGED <<expr, built, accessed, result, delegate, rebinds, compilers,
                 lateCompilers>>

\* the function that was loaded is called with type_, possibly after other
\* threads have run: the cached delegate renders at once, the initializer is
\* entered
CallDelegate(t) ==
  /\ threads[t].pc = "call"
  /\ threads' = [threads EXCEPT ![t] =
                   IF threads[t].fn = "process"
                   THEN [@ EXCEPT !.pc = "field",
                                  !.parts = Append(@, Entry(threads[t])),
                                  !.i = @ + 1]
                   ELSE [@ EXCEPT !.pc = "L43", !.late = (rebinds > 0)]]
  /\ UNCHANGED <<expr, built, accessed, result, delegate, rebinds, compilers,
                 lateCompilers>>

\* type_compiler = base.dialect.type_compiler(base.dialect())
ConstructCompiler(t) ==
  /\ threads[t].pc = "L43"
  /\ threads' = [threads EXCEPT ![t].pc = "L44"]
  /\ compilers' = compilers + 1
  /\ lateCompilers' = lateCompilers + (IF threads[t].late THEN 1 ELSE 0)
  /\ UNCHANGED <<expr, built, accessed, result, delegate, rebinds>>

\* _get_subtype_col_spec = type_compiler.process
Rebind(t) ==
  /\ threads[t].pc = "L44"
  /\ delegate' = "process"
  /\ rebinds' = rebinds + 1
  /\ threads' = [threads EXCEPT ![t] =
                   [@ EXCEPT !.pc = "L45", !.rebound = @ + 1]]
  /\ UNCHANGED <<expr, built, accessed, result, compilers, lateCompilers>>

\* return _get_subtype_col_spec(type_): the name, rebound by this thread one
\* statement before and never bound back, gives the cached delegate
ReturnFromInitializer(t) ==
  /\ threads[t].pc = "L45"
  /\ threads' = [threads EXCEPT ![t] =
                   [@ EXCEPT !.pc = "field",
                             !.parts = Append(@, Entry(threads[t])),
                             !.i = @ + 1]]
  /\ UNCHANGED <<expr, built, accessed, result, delegate, rebinds, compilers,
                 lateCompilers>>

\* return f"STRUCT<{fields}>"
ReturnColSpec(t) ==
  /\ threads[t].pc = "field"
  /\ threads[t].i > Len(threads[t].self._STRUCT_fields)
  /\ threads' = [threads EXCEPT ![t] =
                   [@ EXCEPT !.pc = "idle",
                             !.out = "STRUCT<" \o Join(", ", threads[t].parts)
                                    \o ">"]]
  /\ UNCHANGED <<expr, built, accessed, result, delegate, rebinds, compilers,
                 lateCompilers>>

InitCache ==
  /\ expr = NoExpr
  /\ built = [call |-> "none"]
  /\ accessed = <<>>
  /\ result = NoResult
  /\ delegate = "initializer"
  /\ threads = IdleThreads
  /\ rebinds = 0
  /\ compilers = 0
  /\ lateCompilers = 0

NextCache ==
  \E t \in 1..NThreads :
    \/ CallColSpec(t)
    \/ LoadDelegate(t)
    \/ CallDelegate(t)
    \/ ConstructCompiler(t)
    \/ Rebind(t)
    \/ ReturnFromInitializer(t)
    \/ ReturnColSpec(t)

SpecCache == InitCache /\ [][NextCache]_vars

\* C10 as claimed: the delegate is rebound at most once, also when the calls
\* of several threads interleave inside the initializer, and no call made
\* after the rebinding constructs a type compiler.
C10_ReboundOnce ==
  /\ rebinds <= 1
  /\ lateCompilers = 0

\* C10 as amended: the delegate is rebound at most once by each thread, and
\* only by calls that evaluated the name before the first rebinding (so at
\* most once when the calls do not overlap, and up to once per thread when
\* they do, such a call possibly entering the initializer after another
\* thread has rebound the name); a call that evaluates the name after a
\* rebinding gets the cached delegate and constructs no type compiler; every
\* rebinding binds the process function; every get_col_spec call, first or
\* later, returns the same rendering for the same type.
C10_DelegateCache ==
  /\ \A t \in 1..NThreads : threads[t].rebound <= 1
  /\ rebinds <= NThreads
  /\ compilers <= NThreads
  /\ \A t \in 1..NThreads :
       threads[t].pc \in {"L43", "L44", "L45"} => ~threads[t].lookedLate
  /\ \A t \in 1..NThreads :
       (threads[t].pc = "call" /\ threads[t].lookedLate)
       => threads[t].fn = "process"
  /\ rebinds > 0 => delegate = "process"
  /\ \A t \in 1..NThreads :
       (threads[t].pc = "idle" /\ threads[t].calls > 0)
       => threads[t].out = get_col_spec(threads[t].self)

\* two threads have both rebound the delegate, one of them having entered
\* the initializer after the other's rebinding, and one has since made a
\* further call that returned
C10_Witness ==
  /\ rebinds = 2
  /\ lateCompilers = 1
  /\ \E t \in 1..NThreads :
       /\ threads[t].pc = "idle"
       /\ threads[t].calls = 2
       /\ threads[t].out = "STRUCT<foo INT64, Foo STRING>"

====
